---------------------------- MODULE Spec2Model ----------------------------
(***************************************************************************)
(* A model of tools/make_xftmpl.c: the encoder that turns a text X         *)
(* template file into the binary token stream.                             *)
(*                                                                         *)
(* Bytes of the input are one-character strings ("{", "a", "\n"); bytes    *)
(* of the Output Buffer are numbers 0..255 (Ord of the character, or a     *)
(* byte of a code or of a payload).  Multi-byte values are stored in the   *)
(* byte order of the x86 builds of the tool (little endian).               *)
(***************************************************************************)
EXTENDS Integers, Sequences, FiniteSets, TLC

(***************************************************************************)
(* Bounds of the model (not program constants).                            *)
(***************************************************************************)
\* the body of an input file is made of at most MaxChunks lexicon items
MaxChunks == 2
\* the body of an input file of the option runs has at most MaxLines items
MaxLines == 2
\* the body of an input file of the runs with a limited heap has at most
\* MaxHeapChunks items
MaxHeapChunks == 2
\* the heap limits of those runs let the Output Buffer double at most
\* MaxDoublings - 1 times
MaxDoublings == 3
\* the long names, strings and lines exceed the length at which the program
\* changes its behaviour by at most MaxExtra bytes
MaxExtra == 2

(***************************************************************************)
(* Program constants.                                                      *)
(***************************************************************************)
TOKEN_NAME == 1
TOKEN_STRING == 2
TOKEN_INTEGER == 3
TOKEN_GUID == 5
TOKEN_OBRACE == 10
TOKEN_CBRACE == 11
TOKEN_OPAREN == 12
TOKEN_CPAREN == 13
TOKEN_OBRACKET == 14
TOKEN_CBRACKET == 15
TOKEN_DOT == 18
TOKEN_COMMA == 19
TOKEN_SEMICOLON == 20
TOKEN_TEMPLATE == 31
TOKEN_WORD == 40
TOKEN_DWORD == 41
TOKEN_FLOAT == 42
TOKEN_DOUBLE == 43
TOKEN_CHAR == 44
TOKEN_UCHAR == 45
TOKEN_SWORD == 46
TOKEN_SDWORD == 47
TOKEN_VOID == 48
TOKEN_LPSTR == 49
TOKEN_UNICODE == 50
TOKEN_CSTRING == 51
TOKEN_ARRAY == 52

\* sizeof of the local buffers name[512] and buffer[512]
BUFFER_SIZE == 512
\* the number of bytes parse_guid reads after the '<'
GUID_TEXT_REST == 37
\* sizeof(header)
HEADER_SIZE == 16
\* the bytes of one line of the hex dump of write_c_hex_bytes
HEX_PER_LINE == 12

(***************************************************************************)
(* Characters.                                                             *)
(***************************************************************************)
\* the printable characters in the order of their codes 32..126 (the
\* backquote, code 96, is written by its octal escape)
Ascii ==
    << " ", "!", "\"", "#", "$", "%", "&", "'", "(", ")", "*", "+",
       ",", "-", ".", "/", "0", "1", "2", "3", "4", "5", "6", "7",
       "8", "9", ":", ";", "<", "=", ">", "?", "@", "A", "B", "C",
       "D", "E", "F", "G", "H", "I", "J", "K", "L", "M", "N", "O",
       "P", "Q", "R", "S", "T", "U", "V", "W", "X", "Y", "Z", "[",
       "\\", "]", "^", "_", "\\140", "a", "b", "c", "d", "e", "f", "g",
       "h", "i", "j", "k", "l", "m", "n", "o", "p", "q", "r", "s",
       "t", "u", "v", "w", "x", "y", "z", "{", "|", "}", "~" >>

UpperSeq == << "A", "B", "C", "D", "E", "F", "G", "H", "I", "J", "K", "L", "M", "N", "O", "P", "Q", "R", "S", "T", "U", "V", "W", "X", "Y", "Z" >>

LowerSeq == << "a", "b", "c", "d", "e", "f", "g", "h", "i", "j", "k", "l", "m", "n", "o", "p", "q", "r", "s", "t", "u", "v", "w", "x", "y", "z" >>

Range(s) == {s[i] : i \in 1..Len(s)}

Upper == Range(UpperSeq)

Lower == Range(LowerSeq)

Digits == {"0", "1", "2", "3", "4", "5", "6", "7", "8", "9"}

\* the byte 0xFF, which is what (char)EOF holds after a failed read_byte
CH_FF == "\\377"

\* a pointer to a string is << >> (NULL) or << s >>; NUL is the absent message
NULL == << >>

Ptr(s) == << s >>

NUL == "none"

\* the code of a character
Ord(c) ==
    CASE c = "\t" -> 9
      [] c = "\n" -> 10
      [] c = "\r" -> 13
      [] c = CH_FF -> 255
      [] OTHER -> 31 + (CHOOSE i \in 1..Len(Ascii) : Ascii[i] = c)

Ords(s) == [i \in 1..Len(s) |-> Ord(s[i])]

isdigit(c) == c \in Digits

isalpha(c) == c \in Upper \cup Lower

isalnum(c) == isalpha(c) \/ isdigit(c)

tolower(c) ==
    IF c \in Upper THEN LowerSeq[CHOOSE i \in 1..Len(UpperSeq) : UpperSeq[i] = c] ELSE c

toupper(c) ==
    IF c \in Lower THEN UpperSeq[CHOOSE i \in 1..Len(LowerSeq) : LowerSeq[i] = c] ELSE c

(***************************************************************************)
(* The state a call of the encoder works on, as one record p:              *)
(*   infile, ungot, line_no   the input stream (the bytes not yet read,    *)
(*                            the bytes pushed back by ungetc) and         *)
(*                            parser->line_no                              *)
(*   output_data, output_pos, output_size   the Output Buffer: the bytes   *)
(*                            written so far, their number, the size of    *)
(*                            the block; output_null when output_data is   *)
(*                            NULL                                         *)
(*   option_inc_var_name, option_inc_size_name   the configured names      *)
(*   heap_limit    <<>> when the allocator never fails, <<n>> when a       *)
(*                 block of more than n bytes cannot be had                *)
(*   char_signed   whether plain char is signed in this build              *)
(*   ub            set once the run has executed undefined behaviour       *)
(*   fatal         NUL, or the message fatal_error was called with         *)
(***************************************************************************)

Max(a, b) == IF a >= b THEN a ELSE b

\* fatal_error: the message is printed with the line number and the process
\* exits; here the call is recorded and the callers stop at it
fatal_error(p, msg) == [p EXCEPT !.fatal = msg]

----------------------------------------------------------------------------
(* Byte Reader / Pushback *)

read_byte(p) ==
    IF p.ungot # << >>
    THEN [ok |-> TRUE, c |-> Head(p.ungot),
          p |-> [p EXCEPT !.ungot = Tail(@),
                          !.line_no = IF Head(p.ungot) = "\n" THEN @ + 1 ELSE @]]
    ELSE IF p.infile # << >>
    THEN [ok |-> TRUE, c |-> Head(p.infile),
          p |-> [p EXCEPT !.infile = Tail(@),
                          !.line_no = IF Head(p.infile) = "\n" THEN @ + 1 ELSE @]]
    ELSE [ok |-> FALSE, c |-> CH_FF, p |-> p]

\* ungetc(last_byte): the char is converted to int, so that in a build with
\* signed char the byte 0xFF is EOF, which ungetc refuses
unread_byte(p, last_byte) ==
    LET q == [p EXCEPT !.line_no = IF last_byte = "\n" THEN @ - 1 ELSE @]
    IN  IF last_byte = CH_FF /\ p.char_signed
        THEN q
        ELSE [q EXCEPT !.ungot = << last_byte >> \o @]

\* fread(data, size, 1, infile): one item of size bytes, or none
read_bytes(p, size) ==
    LET avail == p.ungot \o p.infile
    IN  IF Len(avail) >= size
        THEN [ok |-> TRUE, data |-> SubSeq(avail, 1, size),
              p |-> [p EXCEPT !.ungot = << >>,
                              !.infile = SubSeq(avail, size + 1, Len(avail))]]
        ELSE [ok |-> FALSE, data |-> avail,
              p |-> [p EXCEPT !.ungot = << >>, !.infile = << >>]]

----------------------------------------------------------------------------
(* Output Buffer *)

\* realloc(output_data, size)
realloc_ok(p, size) == p.heap_limit = << >> \/ size <= p.heap_limit[1]

grown_size(output_size, size) == Max(output_size * 2, size)

\* write_bytes: data is a sequence of bytes.  These are undefined behaviour:
\* a copy that does not fit the block (the grown block may still be too
\* small), a copy through a NULL output_data, and a block got anew after a
\* failed realloc, whose first output_pos bytes were never written.
write_bytes(p, data) ==
    LET size == Len(data)
        grow == p.output_pos + size > p.output_size
        newsize == IF grow THEN grown_size(p.output_size, size) ELSE p.output_size
    IN  IF grow /\ ~realloc_ok(p, newsize)
        THEN [ok |-> FALSE,
              p |-> [p EXCEPT !.output_size = newsize, !.output_null = TRUE]]
        ELSE [ok |-> TRUE,
              p |-> [p EXCEPT !.output_size = newsize,
                              !.output_null = @ /\ ~grow,
                              !.output_data = @ \o data,
                              !.output_pos = @ + size,
                              !.ub = @ \/ (p.output_null /\ ~grow)
                                       \/ (p.output_null /\ p.output_pos > 0)
                                       \/ (p.output_pos + size > newsize)]]

write_byte(p, value) == write_bytes(p, << value >>)

WordBytes(value) == << value % 256, value \div 256 >>

write_word(p, value) == write_bytes(p, WordBytes(value))

\* the four bytes of a DWORD given as a number in -2^31 .. 2^31 - 1 (an int
\* converted to DWORD keeps its bits)
DwordBytes(value) ==
    LET u == IF value >= 0 THEN value ELSE (value + 2147483647) + 1
        top == IF value >= 0 THEN 0 ELSE 128
    IN  << u % 256, (u \div 256) % 256, (u \div 65536) % 256,
           top + (u \div 16777216) >>

write_dword(p, value) == write_bytes(p, DwordBytes(value))

\* a && b for two writes: b is not evaluated when a returns FALSE
AndThen(r, data) == IF r.ok THEN write_bytes(r.p, data) ELSE r

----------------------------------------------------------------------------
(* Keyword Table *)

reserved_words ==
    << [word |-> << "A", "R", "R", "A", "Y" >>, token |-> TOKEN_ARRAY],
       [word |-> << "C", "H", "A", "R" >>, token |-> TOKEN_CHAR],
       [word |-> << "C", "S", "T", "R", "I", "N", "G" >>, token |-> TOKEN_CSTRING],
       [word |-> << "D", "O", "U", "B", "L", "E" >>, token |-> TOKEN_DOUBLE],
       [word |-> << "D", "W", "O", "R", "D" >>, token |-> TOKEN_DWORD],
       [word |-> << "F", "L", "O", "A", "T" >>, token |-> TOKEN_FLOAT],
       [word |-> << "S", "D", "W", "O", "R", "D" >>, token |-> TOKEN_SDWORD],
       [word |-> << "S", "T", "R", "I", "N", "G" >>, token |-> TOKEN_LPSTR],
       [word |-> << "S", "W", "O", "R", "D" >>, token |-> TOKEN_SWORD],
       [word |-> << "T", "E", "M", "P", "L", "A", "T", "E" >>, token |-> TOKEN_TEMPLATE],
       [word |-> << "U", "C", "H", "A", "R" >>, token |-> TOKEN_UCHAR],
       [word |-> << "U", "N", "I", "C", "O", "D", "E" >>, token |-> TOKEN_UNICODE],
       [word |-> << "V", "O", "I", "D" >>, token |-> TOKEN_VOID],
       [word |-> << "W", "O", "R", "D" >>, token |-> TOKEN_WORD] >>

\* strcasecmp(a, b): -1, 0 or 1
RECURSIVE strcasecmp_from(_, _, _)
strcasecmp_from(a, b, i) ==
    IF i > Len(a) /\ i > Len(b) THEN 0
    ELSE IF i > Len(a) THEN -1
    ELSE IF i > Len(b) THEN 1
    ELSE IF Ord(tolower(a[i])) < Ord(tolower(b[i])) THEN -1
    ELSE IF Ord(tolower(a[i])) > Ord(tolower(b[i])) THEN 1
    ELSE strcasecmp_from(a, b, i + 1)

\* strcmp in place of strcasecmp: the comparison with the case kept
RECURSIVE strcmp_from(_, _, _)
strcmp_from(a, b, i) ==
    IF i > Len(a) /\ i > Len(b) THEN 0
    ELSE IF i > Len(a) THEN -1
    ELSE IF i > Len(b) THEN 1
    ELSE IF Ord(a[i]) < Ord(b[i]) THEN -1
    ELSE IF Ord(a[i]) > Ord(b[i]) THEN 1
    ELSE strcmp_from(a, b, i + 1)

compare_names_case_kept(a, b) == strcmp_from(a, b, 1)

compare_names(a, b) == strcasecmp_from(a, b, 1)

\* bsearch(&name, reserved_words, ...) over the entries l+1 .. u: the index
\* of the entry found, or 0
RECURSIVE bsearch(_, _, _)
bsearch(name, l, u) ==
    IF l >= u THEN 0
    ELSE LET idx == (l + u) \div 2
             cmp == compare_names(name, reserved_words[idx + 1].word)
         IN  IF cmp < 0 THEN bsearch(name, l, idx)
             ELSE IF cmp > 0 THEN bsearch(name, idx + 1, u)
             ELSE idx + 1

parse_keyword(p, name) ==
    LET keyword == bsearch(name, 0, Len(reserved_words))
    IN  IF keyword = 0
        THEN [ok |-> FALSE, p |-> p]
        ELSE write_word(p, reserved_words[keyword].token)

----------------------------------------------------------------------------
(* sscanf, as far as parse_guid and parse_number use it *)

HexSeq ==
    << "0", "1", "2", "3", "4", "5", "6", "7", "8", "9", "a", "b", "c", "d", "e", "f" >>

isxdigit(c) == tolower(c) \in Range(HexSeq)

HexVal(c) == (CHOOSE i \in 1..Len(HexSeq) : HexSeq[i] = tolower(c)) - 1

isspace(c) == c \in {" ", "\t", "\n", "\r"}

\* the first index >= i of buf that holds no white space (Len(buf) + 1 if none)
RECURSIVE SkipSpace(_, _)
SkipSpace(buf, i) ==
    IF i <= Len(buf) /\ isspace(buf[i]) THEN SkipSpace(buf, i + 1) ELSE i

\* the number of hex digits of buf from index i on, at most width
RECURSIVE HexRun(_, _, _)
HexRun(buf, i, width) ==
    IF width > 0 /\ i <= Len(buf) /\ isxdigit(buf[i])
    THEN 1 + HexRun(buf, i + 1, width - 1)
    ELSE 0

\* one %0<width>X conversion at index i: white space is skipped, a sign is
\* accepted and counts in the width, then come the hex digits, at least one
\* (the 0x prefix that scanf also accepts is left out: no input of the model
\* holds an 'x')
ScanHex(buf, i, width) ==
    LET j == SkipSpace(buf, i)
        signed == j <= Len(buf) /\ buf[j] \in {"-", "+"}
        k == IF signed THEN j + 1 ELSE j
        n == HexRun(buf, k, IF signed THEN width - 1 ELSE width)
    IN  [ok |-> n > 0, next |-> k + n,
         neg |-> signed /\ buf[j] = "-",
         digs |-> [d \in 1..n |-> HexVal(buf[k + d - 1])]]

\* guidfmt = "<%08X-%04X-%04X-%02X%02X-%02X%02X%02X%02X%02X%02X>": the width of
\* each conversion and the literal in front of it ("" for none)
GuidWidths == << 8, 4, 4, 2, 2, 2, 2, 2, 2, 2, 2 >>

GuidLiterals == << "<", "-", "-", "-", "", "-", "", "", "", "", "" >>

\* sscanf(buf, guidfmt, ...) from conversion k on: ret is the number of
\* conversions made (the '>' that ends the format is after the last
\* conversion and changes nothing)
RECURSIVE sscanf_guid(_, _, _, _)
sscanf_guid(buf, i, k, fields) ==
    IF k > Len(GuidWidths) THEN [ret |-> k - 1, fields |-> fields]
    ELSE LET lit == GuidLiterals[k]
             litok == lit = "" \/ (i <= Len(buf) /\ buf[i] = lit)
             j == IF lit = "" THEN i ELSE i + 1
             f == ScanHex(buf, j, GuidWidths[k])
         IN  IF ~litok \/ ~f.ok THEN [ret |-> k - 1, fields |-> fields]
             ELSE sscanf_guid(buf, f.next, k + 1, Append(fields, f))

\* the low nbytes bytes, low byte first, of the number with hex digits digs
UnsignedBytes(digs, nbytes) ==
    LET pad == [d \in 1..(2 * nbytes - Len(digs)) |-> 0] \o digs
    IN  [b \in 1..nbytes |-> 16 * pad[2 * (nbytes - b) + 1] + pad[2 * (nbytes - b) + 2]]

\* two's complement of a little endian byte sequence
RECURSIVE NegateFrom(_, _, _)
NegateFrom(bytes, b, carry) ==
    IF b > Len(bytes) THEN << >>
    ELSE << ((255 - bytes[b]) + carry) % 256 >>
         \o NegateFrom(bytes, b + 1, ((255 - bytes[b]) + carry) \div 256)

FieldBytes(f, nbytes) ==
    IF f.neg THEN NegateFrom(UnsignedBytes(f.digs, nbytes), 1, 1)
    ELSE UnsignedBytes(f.digs, nbytes)

\* the 16 bytes of the GUID struct: Data1, Data2, Data3, Data4[0..7]
GuidBytes(fields) ==
    FieldBytes(fields[1], 4) \o FieldBytes(fields[2], 2) \o FieldBytes(fields[3], 2)
    \o FieldBytes(fields[4], 1) \o FieldBytes(fields[5], 1) \o FieldBytes(fields[6], 1)
    \o FieldBytes(fields[7], 1) \o FieldBytes(fields[8], 1) \o FieldBytes(fields[9], 1)
    \o FieldBytes(fields[10], 1) \o FieldBytes(fields[11], 1)

parse_guid(p) ==
    LET r == read_bytes(p, GUID_TEXT_REST)
        buf == << "<" >> \o r.data
        s == sscanf_guid(buf, 1, 1, << >>)
    IN  IF ~r.ok THEN [ok |-> FALSE, p |-> fatal_error(r.p, "truncated GUID")]
        ELSE IF s.ret # 11 THEN [ok |-> FALSE, p |-> fatal_error(r.p, "invalid GUID")]
        ELSE AndThen(write_word(r.p, TOKEN_GUID), GuidBytes(s.fields))

\* the number written with the decimal digits digs (at most 9 digits, so that
\* it fits an int; no input of the model holds a longer numeral)
RECURSIVE DecVal(_)
DecVal(digs) ==
    IF digs = << >> THEN 0
    ELSE 10 * DecVal(SubSeq(digs, 1, Len(digs) - 1)) + (HexVal(digs[Len(digs)]))

SelectDigits(buffer) == SelectSeq(buffer, isdigit)

\* sscanf(buffer, "%d", &value) for a buffer of parse_number without a '.':
\* an optional '-' and digits
sscanf_d(buffer) ==
    LET digs == SelectDigits(buffer)
        neg == buffer # << >> /\ buffer[1] = "-"
    IN  [ret |-> IF digs = << >> THEN 0 ELSE 1,
         value |-> IF neg THEN 0 - DecVal(digs) ELSE DecVal(digs)]

RECURSIVE Pow(_, _)
Pow(b, n) == IF n = 0 THEN 1 ELSE b * Pow(b, n - 1)

\* the largest e with den * 2^e <= num, for num >= den
RECURSIVE Log2Floor(_, _)
Log2Floor(num, den) == IF 2 * den <= num THEN 1 + Log2Floor(num, 2 * den) ELSE 0

\* the smallest k with num * 2^k >= den, for 0 < num < den
RECURSIVE Log2Ceil(_, _)
Log2Ceil(num, den) == IF num >= den THEN 0 ELSE 1 + Log2Ceil(2 * num, den)

\* n more bits of the binary expansion of (m + r / den): the pair << m, r >>
RECURSIVE Bits(_, _, _, _)
Bits(m, r, den, n) ==
    IF n = 0 THEN << m, r >>
    ELSE IF 2 * r >= den THEN Bits(2 * m + 1, 2 * r - den, den, n - 1)
    ELSE Bits(2 * m, 2 * r, den, n - 1)

\* the four bytes of the IEEE-754 single nearest to (-1)^neg * n / d (ties to
\* even), for 0 <= n < 10^9 and d a power of ten <= 10^9
Float32Bytes(neg, n, d) ==
    LET sign == IF neg THEN 128 ELSE 0
    IN  IF n = 0 THEN << 0, 0, 0, sign >>
        ELSE LET e0 == IF n >= d THEN Log2Floor(n, d) ELSE 0 - Log2Ceil(n, d)
                 num == IF n >= d THEN n ELSE n * Pow(2, 0 - e0)
                 den == IF n >= d THEN d * Pow(2, e0) ELSE d
                 mr == Bits(1, num - den, den, 23)
                 up == 2 * mr[2] > den \/ (2 * mr[2] = den /\ mr[1] % 2 = 1)
                 m1 == IF up THEN mr[1] + 1 ELSE mr[1]
                 carry == m1 = 16777216
                 mant == IF carry THEN 0 ELSE m1 - 8388608
                 E == (IF carry THEN e0 + 1 ELSE e0) + 127
             IN  << mant % 256, (mant \div 256) % 256,
                    (E % 2) * 128 + (mant \div 65536), sign + (E \div 2) >>

\* sscanf(buffer, "%f", &value) for a buffer of parse_number with a '.':
\* an optional '-', digits, the '.', digits
sscanf_f(buffer) ==
    LET digs == SelectDigits(buffer)
        neg == buffer # << >> /\ buffer[1] = "-"
        dotat == CHOOSE i \in 1..Len(buffer) : buffer[i] = "."
        nfrac == Len(SelectDigits(SubSeq(buffer, dotat + 1, Len(buffer))))
    IN  [ret |-> IF digs = << >> THEN 0 ELSE 1,
         value |-> IF digs = << >> THEN << >>
                   ELSE Float32Bytes(neg, DecVal(digs), Pow(10, nfrac))]

----------------------------------------------------------------------------
(* Token Encoder *)

isnamechar(c) == isalnum(c) \/ c = "_" \/ c = "-"

\* the bytes the reader has still to give, the pushed-back byte first
stream(p) == p.ungot \o p.infile

\* the loop, had the byte it stops at been left in the stream
read_loop_keeps_stop(p, stops, buffer) ==
    LET s == stream(p)
        end == IF stops = {} THEN Len(s) + 1
               ELSE CHOOSE i \in stops : \A j \in stops : i <= j
        taken == IF end > Len(s) THEN Len(s) ELSE end - 1
        newlines == Cardinality({ i \in 1..taken : s[i] = "\n" })
        all == buffer \o SubSeq(s, 1, end - 1)
    IN  [p |-> [p EXCEPT !.ungot = << >>,
                         !.infile = SubSeq(s, taken + 1, Len(s)),
                         !.line_no = @ + newlines],
         c |-> IF end > Len(s) THEN CH_FF ELSE s[end],
         buffer |-> SubSeq(all, 1, IF Len(all) < BUFFER_SIZE THEN Len(all)
                                   ELSE BUFFER_SIZE - 1)]

\* a loop  while (read_byte(parser, &c) && cond(c)) if (len + 1 < 512)
\* buffer[len++] = c;  as a whole: stops are the places of stream(p) whose
\* byte fails cond.  The loop reads up to and with the first of them, or to
\* the end of the input, where read_byte leaves (char)EOF in c.  The result
\* is the state after the loop, the byte c and the bytes collected.
read_loop(p, stops, buffer) ==
    LET s == stream(p)
        end == IF stops = {} THEN Len(s) + 1
               ELSE CHOOSE i \in stops : \A j \in stops : i <= j
        taken == IF end > Len(s) THEN Len(s) ELSE end
        newlines == Cardinality({ i \in 1..taken : s[i] = "\n" })
        all == buffer \o SubSeq(s, 1, end - 1)
    IN  [p |-> [p EXCEPT !.ungot = << >>,
                         !.infile = SubSeq(s, taken + 1, Len(s)),
                         !.line_no = @ + newlines],
         c |-> IF end > Len(s) THEN CH_FF ELSE s[end],
         buffer |-> SubSeq(all, 1, IF Len(all) < BUFFER_SIZE THEN Len(all)
                                   ELSE BUFFER_SIZE - 1)]

\* the loop of parse_name: the state after it, the byte c it stopped at and
\* the name collected (len < sizeof(name) holds throughout, as len stops
\* at 511)
parse_name_loop(p, name) ==
    LET l == read_loop(p, { i \in 1..Len(stream(p)) : ~isnamechar(stream(p)[i]) }, name)
    IN  [p |-> l.p, c |-> l.c, name |-> l.buffer]

parse_name(p) ==
    LET l == parse_name_loop(p, << >>)
        q == unread_byte(l.p, l.c)
        k == parse_keyword(q, l.name)
    IN  IF k.ok THEN k
        ELSE AndThen(AndThen(write_word(k.p, TOKEN_NAME), DwordBytes(Len(l.name))),
                     Ords(l.name))

\* the loop of parse_number, had a '.' been taken however many came before
RECURSIVE parse_number_loop_any_dot(_, _, _)
parse_number_loop_any_dot(p, buffer, dot) ==
    LET r == read_byte(p)
    IN  IF r.ok /\ ((Len(buffer) = 0 /\ r.c = "-") \/ r.c = "." \/ isdigit(r.c))
        THEN parse_number_loop_any_dot(r.p,
                                       IF Len(buffer) + 1 < BUFFER_SIZE
                                       THEN Append(buffer, r.c) ELSE buffer,
                                       dot \/ r.c = ".")
        ELSE [p |-> r.p, c |-> r.c, buffer |-> buffer, dot |-> dot]

\* the loop of parse_number
RECURSIVE parse_number_loop(_, _, _)
parse_number_loop(p, buffer, dot) ==
    LET r == read_byte(p)
    IN  IF r.ok /\ ((Len(buffer) = 0 /\ r.c = "-") \/ (~dot /\ r.c = ".") \/ isdigit(r.c))
        THEN parse_number_loop(r.p,
                               IF Len(buffer) + 1 < BUFFER_SIZE
                               THEN Append(buffer, r.c) ELSE buffer,
                               dot \/ r.c = ".")
        ELSE [p |-> r.p, c |-> r.c, buffer |-> buffer, dot |-> dot]

parse_number(p) ==
    LET l == parse_number_loop(p, << >>, FALSE)
        q == unread_byte(l.p, l.c)
    IN  IF l.dot
        THEN LET s == sscanf_f(l.buffer)
             IN  IF s.ret = 0
                 THEN [ok |-> FALSE, p |-> fatal_error(q, "invalid float token")]
                 ELSE AndThen(write_word(q, TOKEN_FLOAT), s.value)
        ELSE LET s == sscanf_d(l.buffer)
             IN  IF s.ret = 0
                 THEN [ok |-> FALSE, p |-> fatal_error(q, "invalid integer token")]
                 ELSE AndThen(write_word(q, TOKEN_INTEGER), DwordBytes(s.value))

\* read_until, had the end of the input counted as the stop byte
read_until_or_end(p, stop, buffer) ==
    LET l == read_loop(p, { i \in 1..Len(stream(p)) : stream(p)[i] = stop }, buffer)
    IN  [l EXCEPT !.c = stop]

\* while (read_byte(parser, &c) && c != stop) [collect c]: the state after
\* the loop, the byte it stopped at and the bytes collected
read_until(p, stop, buffer) ==
    read_loop(p, { i \in 1..Len(stream(p)) : stream(p)[i] = stop }, buffer)

\* the words strtok(buffer, " \t"), strtok(NULL, " \t"), ... return: the
\* longest runs of bytes other than ' ' and '\t', in their order
strtok_all(buffer) ==
    LET delim(i) == buffer[i] \in {" ", "\t"}
        starts == { i \in 1..Len(buffer) : ~delim(i) /\ (i = 1 \/ delim(i - 1)) }
        ends == { i \in 1..Len(buffer) : ~delim(i) /\ (i = Len(buffer) \/ delim(i + 1)) }
        nth(set, k) == CHOOSE i \in set : Cardinality({ j \in set : j < i }) = k - 1
    IN  [k \in 1..Cardinality(starts) |-> SubSeq(buffer, nth(starts, k), nth(ends, k))]

\* the '#' case of parse_token, had a later directive replaced the name
parse_directive_last_wins(p, buffer) ==
    LET tok == strtok_all(buffer)
    IN  IF Len(tok) < 1 \/ tok[1] # << "p", "r", "a", "g", "m", "a" >> THEN p
        ELSE IF Len(tok) < 2 \/ tok[2] # << "x", "f", "t", "m", "p", "l" >> THEN p
        ELSE IF Len(tok) < 3 THEN p
        ELSE IF tok[3] = << "n", "a", "m", "e" >>
        THEN (IF Len(tok) >= 4
              THEN [p EXCEPT !.option_inc_var_name = Ptr(tok[4])] ELSE p)
        ELSE IF tok[3] = << "s", "i", "z", "e" >>
        THEN (IF Len(tok) >= 4
              THEN [p EXCEPT !.option_inc_size_name = Ptr(tok[4])] ELSE p)
        ELSE p

\* the '#' case of parse_token, after the line is read
parse_directive(p, buffer) ==
    LET tok == strtok_all(buffer)
    IN  IF Len(tok) < 1 \/ tok[1] # << "p", "r", "a", "g", "m", "a" >> THEN p
        ELSE IF Len(tok) < 2 \/ tok[2] # << "x", "f", "t", "m", "p", "l" >> THEN p
        ELSE IF Len(tok) < 3 THEN p
        ELSE IF tok[3] = << "n", "a", "m", "e" >>
        THEN (IF Len(tok) >= 4 /\ p.option_inc_var_name = NULL
              THEN [p EXCEPT !.option_inc_var_name = Ptr(tok[4])] ELSE p)
        ELSE IF tok[3] = << "s", "i", "z", "e" >>
        THEN (IF Len(tok) >= 4 /\ p.option_inc_size_name = NULL
              THEN [p EXCEPT !.option_inc_size_name = Ptr(tok[4])] ELSE p)
        ELSE p

\* the code of a punctuation byte
\* PunctuationCode, had '.' been given the code of ','
PunctuationCode_dot_as_comma(c) ==
    CASE c = "{" -> TOKEN_OBRACE
      [] c = "}" -> TOKEN_CBRACE
      [] c = "[" -> TOKEN_OBRACKET
      [] c = "]" -> TOKEN_CBRACKET
      [] c = "(" -> TOKEN_OPAREN
      [] c = ")" -> TOKEN_CPAREN
      [] c = "," -> TOKEN_COMMA
      [] c = ";" -> TOKEN_SEMICOLON
      [] c = "." -> TOKEN_COMMA

PunctuationCode(c) ==
    CASE c = "{" -> TOKEN_OBRACE
      [] c = "}" -> TOKEN_CBRACE
      [] c = "[" -> TOKEN_OBRACKET
      [] c = "]" -> TOKEN_CBRACKET
      [] c = "(" -> TOKEN_OPAREN
      [] c = ")" -> TOKEN_CPAREN
      [] c = "," -> TOKEN_COMMA
      [] c = ";" -> TOKEN_SEMICOLON
      [] c = "." -> TOKEN_DOT

\* parse_token: ok is its return value (meaningless once p.fatal is set)
parse_token(p) ==
    LET r == read_byte(p)
        c == r.c
    IN  IF ~r.ok THEN [ok |-> FALSE, p |-> r.p]
        ELSE IF c \in {"\n", "\r", " ", "\t"} THEN [ok |-> TRUE, p |-> r.p]
        ELSE IF c \in {"{", "}", "[", "]", "(", ")", ",", ";", "."}
        THEN write_word(r.p, PunctuationCode(c))
        ELSE IF c = "/"
        THEN LET r2 == read_byte(r.p)
                 l == read_until(r2.p, "\n", << >>)
             IN  IF ~r2.ok \/ r2.c # "/"
                 THEN [ok |-> FALSE,
                       p |-> fatal_error(r2.p, "invalid single '/' comment token")]
                 ELSE [ok |-> l.c = "\n", p |-> l.p]
        ELSE IF c = "#"
        THEN LET l == read_until(r.p, "\n", << >>)
             IN  IF l.c # "\n"
                 THEN [ok |-> FALSE, p |-> fatal_error(l.p, "line too long")]
                 ELSE [ok |-> TRUE, p |-> parse_directive(l.p, l.buffer)]
        ELSE IF c = "<" THEN parse_guid(r.p)
        ELSE IF c = "\""
        THEN LET l == read_until(r.p, "\"", << >>)
             IN  IF l.c # "\""
                 THEN [ok |-> FALSE, p |-> fatal_error(l.p, "unterminated string")]
                 ELSE AndThen(AndThen(write_word(l.p, TOKEN_STRING),
                                      DwordBytes(Len(l.buffer))),
                              Ords(l.buffer))
        ELSE LET q == unread_byte(r.p, c)
             IN  IF isdigit(c) \/ c = "-" THEN parse_number(q)
                 ELSE IF isalpha(c) \/ c = "_" THEN parse_name(q)
                 ELSE [ok |-> FALSE,
                       p |-> fatal_error(q, "invalid character to start token")]

----------------------------------------------------------------------------
(* The command line and the files of a run *)

\* getopt's view of the command line: opts is the sequence of << option
\* letter, optarg >> it returns, files the arguments left at optind
Arg(opts, files) == [opts |-> opts, files |-> files]

InName == << "i", "n", ".", "x" >>

OutName == << "d", "/", "o", ".", "h" >>

VarA == << "A" >>

SizeS == << "S" >>

Dash == << "-" >>

OptH == << "H", << >> >>

OptI == << "i", VarA >>

OptS == << "s", SizeS >>

OptO == << "o", OutName >>

\* the command lines of the runs that explore the lexical rules: binary
\* output to stdout
LexArgs == { Arg(<< >>, << InName >>) }

\* the command lines of the runs that explore the options
OptionArgs ==
    { Arg(<< >>, << Dash >>),
      Arg(<< OptO >>, << InName >>),
      Arg(<< OptH, OptO >>, << InName >>),
      Arg(<< OptI, OptO >>, << InName >>),
      Arg(<< OptH, OptS >>, << InName >>),
      Arg(<< OptS, OptI >>, << Dash >>),
      Arg(<< >>, << >>),
      Arg(<< OptO >>, << InName, InName >>),
      Arg(<< OptO, << "h", << >> >> >>, << InName >>) }

\* all sequences of at most n items of the set s of sequences, concatenated
RECURSIVE Concats(_, _)
Concats(s, n) ==
    IF n = 0 THEN { << >> }
    ELSE LET shorter == Concats(s, n - 1)
         IN  shorter \cup { a \o b : a \in shorter, b \in s }

\* the items the bodies of the lexical runs are made of
Lexicon ==
    { << "{" >>, << "." >>, << ";" >>, << " " >>, << "\n" >>, << "\t" >>, << "\r" >>,
      << "/" >>, << "/", "/", "x" >>, << "#", "p" >>, << "\"" >>, << "a", "b" >>,
      << "<" >>, << "-" >>, << "3" >>, << "W", "o", "r", "d" >>, << "_" >>,
      << "@" >> }

\* the items the numerals of the lexical runs are made of
NumChars == { << "-" >>, << "." >>, << "1" >>, << "5" >> }

\* the reserved words in three spellings, alone, after a prefix and before a
\* suffix
Spellings(w) ==
    { w, [i \in 1..Len(w) |-> tolower(w[i])],
      [i \in 1..Len(w) |-> IF i % 2 = 1 THEN w[i] ELSE tolower(w[i])] }

KeywordBodies ==
    { pre \o s \o post :
        pre \in { << >>, << "s" >>, << "_" >> },
        s \in UNION { Spellings(reserved_words[k].word) : k \in 1..Len(reserved_words) },
        post \in { << >>, << "s" >>, << " " >>, << "-", "1" >>, << "{" >> } }

PunctuationBodies ==
    { pre \o << c >> \o post :
        pre \in { << >>, << "a" >>, << " " >> },
        c \in {"{", "}", "[", "]", "(", ")", ",", ";", "."},
        post \in { << >>, << "a" >>, << "1" >> } }

ZeroGuid == << "<", "0", "0", "0", "0", "0", "0", "0", "0", "-", "0", "0", "0", "0", "-", "0", "0", "0", "0", "-", "0", "0", "0", "0", "-", "0", "0", "0", "0", "0", "0", "0", "0", "0", "0", "0", "0", ">" >>

\* texts that start with '<'
GuidBodies ==
    { << "<", "0", "0", "0", "0", "0", "0", "0", "0", "-", "0", "0", "0", "0", "-", "0", "0", "0", "0", "-", "0", "0", "0", "0", "-", "0", "0", "0", "0", "0", "0", "0", "0", "0", "0", "0", "0", ">" >>,
      << "<", "0", "0", "0", "0", "0", "0", "0", "0", "-", "0", "0", "0", "0", "-", "0", "0", "0", "0", "-", "0", "0", "0", "0", "-", "0", "0", "0", "0", "0", "0", "0", "0", "0", "0", "0", "0", ">", ";" >>,
      << "<", "1", "2", "3", "4", "5", "6", "7", "8", "-", "9", "a", "b", "c", "-", "D", "E", "F", "0", "-", "0", "1", "2", "3", "-", "4", "5", "6", "7", "8", "9", "a", "b", "c", "d", "e", "f", ">" >>,
      << "<", "0", "0", "0", "0", "0", "0", "0", "0", "-", "0", "0", "0", "0", "-", "0", "0", "0", "0", "-", "0", "0", "0", "0", "-", "0", "0", "0", "0", "0", "0", "0", "0", "0", "0", "0", "0", "X" >>,
      << "<", " ", "0", "0", "0", "0", "0", "0", "0", "-", "0", "0", "0", "0", "-", "0", "0", "0", "0", "-", "0", "0", "0", "0", "-", "0", "0", "0", "0", "0", "0", "0", "0", "0", "0", "0", "0", ">" >>,
      << "<", "\n", "0", "0", "0", "0", "0", "0", "0", "-", "0", "0", "0", "0", "-", "0", "0", "0", "0", "-", "0", "0", "0", "0", "-", "0", "0", "0", "0", "0", "0", "0", "0", "0", "0", "0", "0", ">" >>,
      << "<", "0", "0", "0", "0", "0", "0", "0", "g", "-", "0", "0", "0", "0", "-", "0", "0", "0", "0", "-", "0", "0", "0", "0", "-", "0", "0", "0", "0", "0", "0", "0", "0", "0", "0", "0", "0", ">" >>,
      << "<", "0", "0", "0", "0", "0", "0", "0", "0", "-", "0", "0", "0", "0", "-", "0", "0", "0", "0", "-", "0", "0", "0", "0", "-", "0", "0", "0", "0", "0", "0", "0", "0", "0", "0", "0", ">", " " >>,
      << "<", "0", "0", "0", "0", "0", "0", "0", "0", "_", "0", "0", "0", "0", "-", "0", "0", "0", "0", "-", "0", "0", "0", "0", "-", "0", "0", "0", "0", "0", "0", "0", "0", "0", "0", "0", "0", ">" >>,
      << "<", "0", "0", "0", "0", "0", "0", "0", "0", "-", "0", "0", "0", "0", "-", "0", "0", "0", "0", "-", "0", "0", "0", "0", "-", "0", "0", "0", "0", "0", "0", "0", "0", "0", "0", "-", "1", ">" >>,
      << "<", "0", "0", "0", "0" >>, << "<" >> }

\* the examples of the specification
ExampleBodies ==
    { << "3", ".", "5", ".", "1" >>, << "-", "4", "2" >>, << "3", ".", "5" >>,
      << "t", "e", "m", "p", "l", "a", "t", "e" >>,
      << "T", "e", "m", "p", "l", "a", "t", "e" >>,
      << "T", "E", "M", "P", "L", "A", "T", "E" >>,
      << "M", "y", "M", "e", "s", "h", "-", "1" >>, << "\"", "a", "b", "c" >>,
      << "\"", "a", "b", "c", "\"" >>, << "f", "l", "o", "a", "t", " ", "3", ".", "5" >>,
      << "t", "e", "m", "p", "l", "a", "t", "e", " ", "M", "e", "s", "h", " ", "{", " ", "<", "0", "0", "0", "0", "0", "0", "0", "0", "-", "0", "0", "0", "0", "-", "0", "0", "0", "0", "-", "0", "0", "0", "0", "-", "0", "0", "0", "0", "0", "0", "0", "0", "0", "0", "0", "0", ">", " ", "D", "W", "O", "R", "D", " ", "n", ";", " ", "}", "\n" >> }

LexBodies ==
    Concats(Lexicon, MaxChunks) \cup Concats(NumChars, MaxChunks + 2)
    \cup KeywordBodies \cup PunctuationBodies \cup GuidBodies \cup ExampleBodies

NameFoo == << "#", "p", "r", "a", "g", "m", "a", " ", "x", "f", "t", "m", "p", "l", " ", "n", "a", "m", "e", " ", "F", "o", "o", "\n" >>

NameBar == << "#", "p", "r", "a", "g", "m", "a", " ", "x", "f", "t", "m", "p", "l", " ", "n", "a", "m", "e", " ", "B", "a", "r", "\n" >>

SizeLen == << "#", "p", "r", "a", "g", "m", "a", " ", "x", "f", "t", "m", "p", "l", " ", "s", "i", "z", "e", " ", "L", "e", "n", "\n" >>

\* the items the bodies of the option runs are made of
Lines ==
    { NameFoo, NameBar, SizeLen,
      << "#", "p", "r", "a", "g", "m", "a", " ", "o", "t", "h", "e", "r", " ", "n", "a", "m", "e", " ", "B", "a", "z", "\n" >>,
      << "{" >>, << "\"", "a", "b", "c" >> }

OptionBodies == Concats(Lines, MaxLines)

MainHeader == << "x", "o", "f", " ", "0", "3", "0", "2", "t", "x", "t", " ", "0", "0", "3", "2" >>

ValidHeaders ==
    { << "x", "o", "f", " ", "0", "3", "0", "2", "t", "x", "t", " ", "0", "0", "3", "2" >>,
      << "x", "o", "f", " ", "0", "3", "0", "2", "t", "x", "t", " ", "0", "0", "6", "4" >>,
      << "x", "o", "f", " ", "0", "3", "0", "3", "t", "x", "t", " ", "0", "0", "3", "2" >>,
      << "x", "o", "f", " ", "0", "3", "0", "3", "t", "x", "t", " ", "0", "0", "6", "4" >> }

BadHeaders ==
    { << "x", "o", "g", " ", "0", "3", "0", "2", "t", "x", "t", " ", "0", "0", "3", "2" >>,
      << "x", "o", "f", " ", "0", "3", "0", "1", "t", "x", "t", " ", "0", "0", "3", "2" >>,
      << "x", "o", "f", " ", "0", "3", "0", "2", "b", "i", "n", " ", "0", "0", "3", "2" >>,
      << "x", "o", "f", " ", "0", "3", "0", "2", "t", "x", "t", " ", "0", "0", "1", "6" >> }

\* the items the bodies of the runs with a limited heap are made of
HeapLexicon ==
    { << "{" >>, << " " >>, << "a", "b" >>, << "3" >>, << "\"", "a", "\"" >>,
      << "W", "o", "r", "d" >> }

HeapBodies == Concats(HeapLexicon, MaxHeapChunks)

\* n times the byte c
Repeat(c, n) == [i \in 1..n |-> c]

\* three names after which the Output Buffer holds 376 bytes of 512
Padding ==
    Repeat("p", 42) \o << " " >> \o Repeat("q", 100) \o << " " >> \o Repeat("r", 200)
    \o << " " >>

\* names, strings and '#' lines around the lengths at which write_bytes and
\* the 512-byte buffers of parse_token change their behaviour
LongBodies ==
    UNION { { Repeat("n", 42 + k),
              Repeat("n", 42 + k) \o << "{" >>,
              << "\"" >> \o Repeat("s", 42 + k) \o << "\"" >>,
              Padding \o << "\"" >> \o Repeat("s", BUFFER_SIZE - 1 + k) \o << "\"", ";" >>,
              Padding \o << "\"" >> \o Repeat("s", BUFFER_SIZE - 1 + k),
              << "#" >> \o Repeat("d", BUFFER_SIZE - 1 + k) \o << "\n", "{" >>,
              << "#" >> \o Repeat("d", BUFFER_SIZE - 1 + k),
              << "#" >> \o Repeat("d", k) \o << "\n" >>,
              << "#" >> \o Repeat("d", k) } : k \in 0..MaxExtra }

\* the files that may be found at the input path: corpus is "lexical",
\* "options", "heap" or "long"
Files(corpus) ==
    { MainHeader \o b : b \in CASE corpus = "lexical" -> LexBodies
                                [] corpus = "options" -> OptionBodies
                                [] corpus = "heap" -> HeapBodies
                                [] corpus = "long" -> LongBodies }
    \cup { h \o b : h \in ValidHeaders \cup BadHeaders, b \in { << >>, << "{" >> } }
    \cup { SubSeq(MainHeader, 1, n) : n \in {0, HEADER_SIZE - 1} }

----------------------------------------------------------------------------
(* The run of main() *)

VARIABLES
    pc,                    \* where main() is
    args,                  \* the command line
    corpus,                \* which files may be found at the input path
    file_state,            \* the output path on disk: "absent", "old" (there
                           \* before the run) or "new" (opened by the run)
    heap_limit,
    char_signed,
    option_header,
    option_inc_var_name,
    option_inc_size_name,
    option_outfile_name,
    infile_name,
    infile,                \* parser.infile: the bytes not yet read
    ungot,                 \* parser.infile: the bytes pushed back
    line_no,               \* parser.line_no
    outfile,               \* parser.outfile: "NULL", "stdout" or "file"
    written,               \* what has been written to parser.outfile
    output_data,
    output_null,
    output_pos,
    output_size,
    ub,
    output_file,
    handlers,              \* atexit(cleanup_files) and signal(...) are done
    exit_status,           \* -1 while the process runs
    diag,                  \* the last message on stderr and its line number
    encoding_begun,        \* parse_token has been called
    input,                 \* NULL, or the content of the input file once the
                           \* file is open
    token_starts           \* the offsets in the Output Buffer at which the
                           \* calls of parse_token started to append

vars ==
    << pc, args, corpus, file_state, heap_limit, char_signed, option_header,
       option_inc_var_name, option_inc_size_name, option_outfile_name, infile_name,
       infile, ungot, line_no, outfile, written, output_data, output_null,
       output_pos, output_size, ub, output_file, handlers, exit_status, diag,
       encoding_begun, input, token_starts >>

\* the variables of the environment and of the options, which only main's
\* first step sets
env_vars == << args, corpus, heap_limit, char_signed >>

history_vars == << encoding_begun, token_starts >>

option_vars == << option_header, option_outfile_name, infile_name >>

name_vars == << option_inc_var_name, option_inc_size_name >>

reader_vars == << infile, ungot, line_no >>

buffer_vars == << output_data, output_null, output_pos, output_size, ub >>

\* the record the encoder's operators work on
Parser ==
    [infile |-> infile, ungot |-> ungot, line_no |-> line_no,
     output_data |-> output_data, output_null |-> output_null,
     output_pos |-> output_pos, output_size |-> output_size,
     option_inc_var_name |-> option_inc_var_name,
     option_inc_size_name |-> option_inc_size_name,
     heap_limit |-> heap_limit, char_signed |-> char_signed, ub |-> ub, fatal |-> NUL]

NoDiag == [msg |-> NUL, line |-> 0]

\* the Output Buffer becomes that of the record q
SetBuffer(q) ==
    /\ output_data' = q.output_data
    /\ output_null' = q.output_null
    /\ output_pos' = q.output_pos
    /\ output_size' = q.output_size
    /\ ub' = q.ub

\* the state before main() runs, for a set of << command line, corpus >>
\* pairs, a set of heap limits and a set of builds
InitWith(worlds, heaps, signs) ==
    /\ pc = "main"
    /\ \E w \in worlds :
         /\ args = w[1]
         /\ corpus = w[2]
         /\ file_state \in IF \E i \in 1..Len(w[1].opts) : w[1].opts[i][1] = "o"
                           THEN {"absent", "old"} ELSE {"absent"}
    /\ heap_limit \in heaps
    /\ char_signed \in signs
    /\ option_header = FALSE
    /\ option_inc_var_name = NULL
    /\ option_inc_size_name = NULL
    /\ option_outfile_name = Dash
    /\ infile_name = NULL
    /\ infile = << >>
    /\ ungot = << >>
    /\ line_no = 0
    /\ outfile = "NULL"
    /\ written = << >>
    /\ output_data = << >>
    /\ output_null = TRUE
    /\ output_pos = 0
    /\ output_size = 0
    /\ ub = FALSE
    /\ output_file = NULL
    /\ handlers = FALSE
    /\ exit_status = -1
    /\ diag = NoDiag
    /\ encoding_begun = FALSE
    /\ input = NULL
    /\ token_starts = << >>

Worlds ==
    { << a, "lexical" >> : a \in LexArgs } \cup { << a, "options" >> : a \in OptionArgs }

Init == InitWith(Worlds, { << >> }, BOOLEAN)

\* the command lines of the runs with a limited heap
HeapArgs ==
    { Arg(<< >>, << InName >>), Arg(<< OptO >>, << InName >>),
      Arg(<< OptI, OptO >>, << InName >>) }

\* the command lines of the runs on long inputs
LongArgs == { Arg(<< >>, << InName >>), Arg(<< OptO >>, << InName >>) }

\* the heap gives out no block, or blocks up to 16, 32, ... bytes
HeapLimits ==
    { << 0 >> } \cup { << HEADER_SIZE * Pow(2, k) >> : k \in 0..(MaxDoublings - 1) }

\* the runs in which realloc fails, and the runs on long inputs
InitStress ==
    \/ InitWith({ << a, "heap" >> : a \in HeapArgs }, HeapLimits, BOOLEAN)
    \/ InitWith({ << a, "long" >> : a \in LongArgs }, { << >> }, BOOLEAN)

\* cleanup_files, had it left the file where it is
cleanup_files_keeps(of, fs) == fs

\* cleanup_files, run by exit(): the state of the output path afterwards
cleanup_files(of, fs) == IF of # NULL THEN "absent" ELSE fs

\* exit, had the output file been named and the cleanup registered before the
\* command line and the header were checked
Exit_after_naming(status, msg, line, h, of, fs) ==
    /\ pc' = "exited"
    /\ exit_status' = status
    /\ diag' = [msg |-> msg, line |-> line]
    /\ file_state' = IF \E i \in 1..Len(args.opts) : args.opts[i][1] = "o"
                      THEN "absent" ELSE fs

\* exit(status), after the message msg: the atexit function runs if it is
\* registered (h), with the value of output_file (of)
Exit(status, msg, line, h, of, fs) ==
    /\ pc' = "exited"
    /\ exit_status' = status
    /\ diag' = [msg |-> msg, line |-> line]
    /\ file_state' = IF h THEN cleanup_files(of, fs) ELSE fs

\* the options: parse_options' loop over what getopt returns
RECURSIVE parse_options(_, _)
parse_options(opts, o) ==
    IF opts = << >> \/ o.help THEN o
    ELSE LET optc == Head(opts)[1]
             optarg == Head(opts)[2]
         IN  parse_options(Tail(opts),
               CASE optc = "h" -> [o EXCEPT !.help = TRUE]
                 [] optc = "H" -> [o EXCEPT !.option_header = TRUE]
                 [] optc = "i" -> [o EXCEPT !.option_header = TRUE,
                                            !.option_inc_var_name = Ptr(optarg)]
                 [] optc = "o" -> [o EXCEPT !.option_outfile_name = optarg]
                 [] optc = "s" -> [o EXCEPT !.option_inc_size_name = Ptr(optarg)]
                 [] OTHER -> o)

NoOptions ==
    [help |-> FALSE, option_header |-> FALSE, option_inc_var_name |-> NULL,
     option_inc_size_name |-> NULL, option_outfile_name |-> Dash]

\* main, lines 448-466: the options, the usage check, the input is opened
\* (f is the file found, << "fopen failed" >> if it cannot be opened)
main_start ==
    /\ pc = "main"
    /\ LET o == parse_options(args.opts, NoOptions)
           usage == ~o.help /\ Len(args.files) # 1
       IN  /\ option_header' = o.option_header
           /\ option_inc_var_name' = o.option_inc_var_name
           /\ option_inc_size_name' = o.option_inc_size_name
           /\ option_outfile_name' = o.option_outfile_name
           /\ infile_name' = IF o.help \/ args.files = << >> THEN NULL
                             ELSE IF args.files[1] = Dash
                             THEN Ptr(<< "s", "t", "d", "i", "n" >>)
                             ELSE Ptr(args.files[1])
           /\ IF o.help
              THEN /\ Exit(0, "usage", 0, handlers, output_file, file_state)
                   /\ UNCHANGED << infile, input >>
              ELSE IF usage
              THEN /\ Exit(1, "usage", 0, handlers, output_file, file_state)
                   /\ UNCHANGED << infile, input >>
              ELSE \E f \in Files(corpus)
                          \cup (IF args.files[1] = Dash THEN { }
                                ELSE { << "fopen failed" >> }) :
                     IF f = << "fopen failed" >>
                     THEN /\ Exit(1, "perror infile", 0, handlers, output_file, file_state)
                          /\ UNCHANGED << infile, input >>
                     ELSE /\ infile' = f
                          /\ input' = Ptr(f)
                          /\ pc' = "header"
                          /\ UNCHANGED << exit_status, diag, file_state >>
    /\ UNCHANGED << env_vars, ungot, line_no, outfile, written, buffer_vars,
                    output_file, handlers, history_vars >>

\* strncmp(header + off, s, 4) != 0
differs(header, off, s) == SubSeq(header, off + 1, off + 4) # s

\* classify, had the test of the version "0303" been forgotten
classify_one_version(header) ==
    IF differs(header, 0, << "x", "o", "f", " " >>) THEN "Invalid magic value"
    ELSE IF differs(header, 4, << "0", "3", "0", "2" >>)
    THEN "Unsupported version"
    ELSE IF differs(header, 8, << "t", "x", "t", " " >>)
    THEN "Only support conversion from text encoded X files."
    ELSE IF differs(header, 12, << "0", "0", "3", "2" >>)
            /\ differs(header, 12, << "0", "0", "6", "4" >>)
    THEN "Only 32-bit or 64-bit float format supported"
    ELSE NUL

\* classify, had the test of the float width been forgotten
classify_no_float_width(header) ==
    IF differs(header, 0, << "x", "o", "f", " " >>) THEN "Invalid magic value"
    ELSE IF differs(header, 4, << "0", "3", "0", "2" >>)
            /\ differs(header, 4, << "0", "3", "0", "3" >>)
    THEN "Unsupported version"
    ELSE IF differs(header, 8, << "t", "x", "t", " " >>)
    THEN "Only support conversion from text encoded X files."
    ELSE NUL

\* the four checks of the header, in the order of main: the message of the
\* first one that fails, NUL when all pass
classify(header) ==
    IF differs(header, 0, << "x", "o", "f", " " >>) THEN "Invalid magic value"
    ELSE IF differs(header, 4, << "0", "3", "0", "2" >>)
            /\ differs(header, 4, << "0", "3", "0", "3" >>)
    THEN "Unsupported version"
    ELSE IF differs(header, 8, << "t", "x", "t", " " >>)
    THEN "Only support conversion from text encoded X files."
    ELSE IF differs(header, 12, << "0", "0", "3", "2" >>)
            /\ differs(header, 12, << "0", "0", "6", "4" >>)
    THEN "Only 32-bit or 64-bit float format supported"
    ELSE NUL

\* main, lines 468-493: the header is read and classified
main_header ==
    /\ pc = "header"
    /\ LET r == read_bytes(Parser, HEADER_SIZE)
           msg == IF ~r.ok THEN "Failed to read file header" ELSE classify(r.data)
       IN  /\ infile' = r.p.infile
           /\ ungot' = r.p.ungot
           /\ IF msg # NUL
              THEN Exit(1, msg, 0, handlers, output_file, file_state)
              ELSE /\ pc' = "output"
                   /\ UNCHANGED << exit_status, diag, file_state >>
    /\ UNCHANGED << env_vars, option_vars, name_vars, line_no, outfile, written,
                    buffer_vars, output_file, handlers, history_vars, input >>

\* main, lines 495-505: stdout is the output, or the output file is named and
\* the cleanup is registered
main_output ==
    /\ pc = "output"
    /\ IF option_outfile_name = Dash
       THEN /\ option_outfile_name' = << "s", "t", "d", "o", "u", "t" >>
            /\ outfile' = "stdout"
            /\ pc' = "write_header"
            /\ UNCHANGED << output_file, handlers >>
       ELSE /\ output_file' = Ptr(option_outfile_name)
            /\ handlers' = TRUE
            /\ pc' = "fopen"
            /\ UNCHANGED << option_outfile_name, outfile >>
    /\ UNCHANGED << env_vars, option_header, infile_name, name_vars, reader_vars,
                    written, buffer_vars, exit_status, diag, file_state,
                    history_vars, input >>

\* main, lines 506-509: fopen(output_file, "wb") creates or truncates the
\* file, or fails
main_fopen ==
    /\ pc = "fopen"
    /\ \E opened \in BOOLEAN :
         IF opened
         THEN /\ outfile' = "file"
              /\ file_state' = "new"
              /\ pc' = "write_header"
              /\ UNCHANGED << exit_status, diag >>
         ELSE /\ Exit(1, "perror outfile", 0, handlers, output_file, file_state)
              /\ outfile' = outfile
    /\ UNCHANGED << env_vars, option_vars, name_vars, reader_vars, written,
                    buffer_vars, output_file, handlers, history_vars, input >>

CanonicalHeader ==
    << "x", "o", "f", " ", "0", "3", "0", "2", "b", "i", "n", " ", "0", "0", "6", "4" >>

\* main, lines 512-515: the output header
main_write_header ==
    /\ pc = "write_header"
    /\ LET r == write_bytes(Parser, Ords(CanonicalHeader))
       IN  /\ SetBuffer(r.p)
           /\ IF r.ok
              THEN /\ line_no' = 1
                   /\ pc' = "encode"
                   /\ UNCHANGED << exit_status, diag, file_state >>
              ELSE /\ Exit(1, NUL, 0, handlers, output_file, file_state)
                   /\ line_no' = line_no
    /\ UNCHANGED << env_vars, option_vars, name_vars, infile, ungot, outfile,
                    written, output_file, handlers, history_vars, input >>

\* what a call that stepped into undefined behaviour may do to the process:
\* a copy through a NULL output_data kills it (SIGSEGV); a copy past the end
\* of the block may go unnoticed or may kill it then or in a later call,
\* when the allocator finds the heap damaged (SIGABRT)
Crashes(q) ==
    IF ~q.ub THEN { NUL }
    ELSE IF q.output_null THEN { "SIGSEGV" }
    ELSE { NUL, "SIGABRT" }

\* main, line 516: one call of parse_token
main_parse_token ==
    /\ pc = "encode"
    /\ LET r == parse_token(Parser)
       IN  /\ infile' = r.p.infile
           /\ ungot' = r.p.ungot
           /\ line_no' = r.p.line_no
           /\ SetBuffer(r.p)
           /\ option_inc_var_name' = r.p.option_inc_var_name
           /\ option_inc_size_name' = r.p.option_inc_size_name
           /\ token_starts' = IF r.p.output_pos > output_pos
                               THEN Append(token_starts, output_pos)
                               ELSE token_starts
           /\ \E crash \in Crashes(r.p) :
                IF crash # NUL
                THEN Exit(IF crash = "SIGSEGV" THEN 139 ELSE 134, crash, 0, FALSE,
                          output_file, file_state)
                ELSE IF r.p.fatal # NUL
                THEN Exit(1, r.p.fatal, r.p.line_no, handlers, output_file, file_state)
                ELSE /\ pc' = IF r.ok THEN "encode" ELSE "check"
                     /\ UNCHANGED << exit_status, diag, file_state >>
    /\ encoding_begun' = TRUE
    /\ UNCHANGED << env_vars, option_vars, outfile, written, output_file, handlers,
                    input >>

\* main, lines 518-519: a read error may be what ended the input
main_check ==
    /\ pc = "check"
    /\ \E read_error \in BOOLEAN :
         IF read_error
         THEN Exit(1, "perror infile", 0, handlers, output_file, file_state)
         ELSE /\ pc' = "emit"
              /\ UNCHANGED << exit_status, diag, file_state >>
    /\ UNCHANGED << env_vars, option_vars, name_vars, reader_vars, outfile, written,
                    buffer_vars, output_file, handlers, history_vars, input >>

\* HexByte with the two digits in the other order
HexByte_low_first(b) ==
    << " ", "0", "x", HexSeq[(b % 16) + 1], HexSeq[(b \div 16) + 1], "," >>

\* the characters " 0x%02x," of one byte
HexByte(b) == << " ", "0", "x", HexSeq[(b \div 16) + 1], HexSeq[(b % 16) + 1], "," >>

\* write_c_hex_bytes, from byte i (counted from 0) on
RECURSIVE write_c_hex_bytes(_, _, _)
write_c_hex_bytes(data, pos, i) ==
    IF i >= pos THEN << >>
    ELSE (IF i % HEX_PER_LINE = 0 THEN << "\n", " " >> ELSE << >>)
         \o HexByte(data[i + 1]) \o write_c_hex_bytes(data, pos, i + 1)

\* write_raw_bytes
write_raw_bytes(data, pos) == SubSeq(data, 1, pos)

\* the characters of %u
RECURSIVE Decimal(_)
Decimal(n) ==
    IF n < 10 THEN << HexSeq[n + 1] >> ELSE Decimal(n \div 10) \o << HexSeq[(n % 10) + 1] >>

\* the index of the last '/' of name, 0 if there is none
strrchr_slash(name) ==
    IF \E i \in 1..Len(name) : name[i] = "/"
    THEN CHOOSE i \in 1..Len(name) :
           name[i] = "/" /\ \A j \in (i + 1)..Len(name) : name[j] # "/"
    ELSE 0

\* main, lines 528-545
header_name(outname) ==
    LET base == SubSeq(outname, strrchr_slash(outname) + 1, Len(outname))
    IN  [i \in 1..Len(base) |-> IF base[i] = "." THEN "_" ELSE toupper(base[i])]

\* main, lines 547-559: the text of the header; the fixed parts of the
\* formats are single items, the rest is one character per item
header_text(inname, outname, var, size, data, pos) ==
    << "/* File generated automatically from " >> \o inname
    \o << "; do not edit */\n\n#ifndef __WINE_" >> \o header_name(outname)
    \o << "\n#define __WINE_" >> \o header_name(outname)
    \o << "\n\nunsigned char " >> \o var \o << "[] = {" >>
    \o write_c_hex_bytes(data, pos, 0)
    \o << "\n};\n\n" >>
    \o (IF size # NULL
        THEN << "#define " >> \o size[1] \o << " " >> \o Decimal(pos) \o << "\n\n" >>
        ELSE << >>)
    \o << "#endif /* __WINE_" >> \o header_name(outname) \o << " */\n" >>

\* main, lines 521-563: the Output Buffer is written to the sink.  Reading
\* through a NULL output_data is undefined; the process is taken to die of
\* SIGSEGV, without running the atexit function.
main_emit ==
    /\ pc = "emit"
    /\ IF option_header /\ option_inc_var_name = NULL
       THEN /\ Exit(1, "variable name must be specified with -i or #pragma name",
                    line_no, handlers, output_file, file_state)
            /\ written' = written
       ELSE IF output_null
       THEN /\ Exit(139, "SIGSEGV", 0, FALSE, output_file, file_state)
            /\ written' = written
       ELSE IF option_header
       THEN /\ written' = header_text(infile_name[1], option_outfile_name,
                                      option_inc_var_name[1], option_inc_size_name,
                                      output_data, output_pos)
            /\ \E write_error \in BOOLEAN :
                 IF write_error
                 THEN Exit(1, "perror outfile", 0, handlers, output_file, file_state)
                 ELSE /\ pc' = "close"
                      /\ UNCHANGED << exit_status, diag, file_state >>
       ELSE /\ written' = write_raw_bytes(output_data, output_pos)
            /\ pc' = "close"
            /\ UNCHANGED << exit_status, diag, file_state >>
    /\ UNCHANGED << env_vars, option_vars, name_vars, reader_vars, outfile,
                    buffer_vars, output_file, handlers, history_vars, input >>

\* main, lines 565-567: the streams are closed and the output file is no
\* longer registered for removal
main_close ==
    /\ pc = "close"
    /\ pc' = "return"
    /\ outfile' = "NULL"
    /\ output_file' = NULL
    /\ UNCHANGED << env_vars, option_vars, name_vars, reader_vars, written,
                    buffer_vars, handlers, exit_status, diag, file_state,
                    history_vars, input >>

\* main, line 569: return 0, that is exit(0)
main_return ==
    /\ pc = "return"
    /\ Exit(0, NUL, 0, handlers, output_file, file_state)
    /\ UNCHANGED << env_vars, option_vars, name_vars, reader_vars, outfile, written,
                    buffer_vars, output_file, handlers, history_vars, input >>

\* exit_on_signal: SIGTERM, SIGINT or SIGHUP arrives once the handlers are
\* installed and before the process has exited
exit_on_signal ==
    /\ handlers
    /\ pc # "exited"
    /\ Exit(1, "signal", 0, handlers, output_file, file_state)
    /\ UNCHANGED << env_vars, option_vars, name_vars, reader_vars, outfile, written,
                    buffer_vars, output_file, handlers, history_vars, input >>

Next ==
    \/ main_start
    \/ main_header
    \/ main_output
    \/ main_fopen
    \/ main_write_header
    \/ main_parse_token
    \/ main_check
    \/ main_emit
    \/ main_close
    \/ main_return
    \/ exit_on_signal

Spec == Init /\ [][Next]_vars

SpecStress == InitStress /\ [][Next]_vars

----------------------------------------------------------------------------
(* What the claims speak of *)

\* the bytes after the header of the input file
Body == IF input = NULL THEN << >> ELSE SubSeq(input[1], HEADER_SIZE + 1, Len(input[1]))

\* the bytes the encoder has still to read
Pending == ungot \o infile

\* the bytes of the Output Buffer after the output header
Tokens == SubSeq(output_data, HEADER_SIZE + 1, Len(output_data))

\* main has gone past the output header
Encoding == pc \in {"encode", "check", "emit", "close", "return"}

\* a header as the Header Classifier accepts it, field by field
AcceptedHeader(h) ==
    /\ Len(h) = 16
    /\ SubSeq(h, 1, 4) = << "x", "o", "f", " " >>
    /\ SubSeq(h, 5, 8) \in { << "0", "3", "0", "2" >>, << "0", "3", "0", "3" >> }
    /\ SubSeq(h, 9, 12) = << "t", "x", "t", " " >>
    /\ SubSeq(h, 13, 16) \in { << "0", "0", "3", "2" >>, << "0", "0", "6", "4" >> }

InputAccepted ==
    /\ input # NULL
    /\ Len(input[1]) >= 16
    /\ AcceptedHeader(SubSeq(input[1], 1, 16))

\* the bytes of "xof 0302bin 0064"
CanonicalBytes ==
    << 120, 111, 102, 32, 48, 51, 48, 50, 98, 105, 110, 32, 48, 48, 54, 52 >>

HeaderMessages ==
    { "Failed to read file header", "Invalid magic value", "Unsupported version",
      "Only support conversion from text encoded X files.",
      "Only 32-bit or 64-bit float format supported" }

(***************************************************************************)
(* C1: whenever the input starts with an accepted header (either version,  *)
(* either float width), none of the header errors is reported, the run     *)
(* gets past the output header, and the Output Buffer, once it holds       *)
(* anything, starts with the 16 bytes "xof 0302bin 0064".                  *)
(***************************************************************************)
C1_CanonicalHeader ==
    InputAccepted =>
        /\ diag.msg \notin HeaderMessages
        /\ Encoding => output_pos >= 16
        /\ output_pos > 0 =>
             /\ output_pos >= 16
             /\ ~output_null
             /\ SubSeq(output_data, 1, 16) = CanonicalBytes

\* the header of the other version and the other float width was read and
\* the output header is the canonical one
C1_Witness ==
    /\ pc = "encode"
    /\ input # NULL
    /\ Len(input[1]) >= 16
    /\ SubSeq(input[1], 1, 16) =
         << "x", "o", "f", " ", "0", "3", "0", "3", "t", "x", "t", " ", "0", "0", "6", "4" >>
    /\ output_data = CanonicalBytes

(***************************************************************************)
(* C10: when the input file is open and its header is short or has a field *)
(* that is not accepted, the run is past the header only as an exited      *)
(* process with status 1: parse_token was never called and the Output      *)
(* Buffer and the sink are empty.                                          *)
(***************************************************************************)
C10_BadHeaderAborts ==
    (input # NULL /\ ~InputAccepted /\ pc # "header") =>
        /\ pc = "exited"
        /\ exit_status = 1
        /\ diag.msg \in HeaderMessages
        /\ ~encoding_begun
        /\ output_pos = 0
        /\ output_data = << >>
        /\ written = << >>

\* a header with a float width that is not accepted ended the run
C10_Witness ==
    /\ pc = "exited"
    /\ exit_status = 1
    /\ input # NULL
    /\ Len(input[1]) >= 16
    /\ SubSeq(input[1], 13, 16) = << "0", "0", "1", "6" >>
    /\ diag.msg = "Only 32-bit or 64-bit float format supported"
    /\ ~encoding_begun

----------------------------------------------------------------------------
(* The steps of the encoder, seen from outside *)

\* a step taken by one call of parse_token (a signal may end the run at the
\* same place)
TokenStep == pc = "encode" /\ ~(pc' = "exited" /\ diag'.msg = "signal")

\* what the step appended to the Output Buffer
Appended == SubSeq(output_data', output_pos + 1, output_pos')

\* the step appended the bytes b and changed nothing that was there
Appends(b) ==
    /\ output_pos' = output_pos + Len(b)
    /\ output_data' = output_data \o b
    /\ ~output_null'

Punctuation == {"{", "}", "[", "]", "(", ")", ",", ";", "."}

(***************************************************************************)
(* C3: a punctuation byte read at a token boundary makes parse_token       *)
(* append one 2-byte code and nothing else, consuming that byte only, and  *)
(* the nine bytes have nine different codes.                               *)
(***************************************************************************)
C3_PunctuationStep ==
    (TokenStep /\ Pending # << >> /\ Head(Pending) \in Punctuation) =>
        /\ pc' = "encode"
        /\ Appends(WordBytes(PunctuationCode(Head(Pending))))
        /\ Len(Appended) = 2
        /\ ungot' \o infile' = Tail(Pending)
        /\ line_no' = line_no
        /\ written' = written
        /\ \A a, b \in Punctuation : a # b => PunctuationCode(a) # PunctuationCode(b)

C3_Punctuation == [][C3_PunctuationStep]_vars

\* the input "." has been encoded as the one code of the Dot token
C3_Witness ==
    /\ pc = "encode"
    /\ Body = << "." >>
    /\ Pending = << >>
    /\ Tokens = << TOKEN_DOT, 0 >>

NameByte(c) == c \in Upper \cup Lower \cup Digits \cup {"_", "-"}

\* the length of the longest prefix of s made of name bytes, counted from i
RECURSIVE NameEnd(_, _)
NameEnd(s, i) == IF i <= Len(s) /\ NameByte(s[i]) THEN NameEnd(s, i + 1) ELSE i - 1

\* the identifier at the head of the pending input, and what follows it
Identifier == SubSeq(Pending, 1, NameEnd(Pending, 1))
AfterIdentifier == SubSeq(Pending, Len(Identifier) + 1, Len(Pending))

FoldCase(s) == [i \in 1..Len(s) |-> tolower(s[i])]

\* the entries of the table that are the word s, whatever the case
Keywords(s) ==
    { k \in 1..Len(reserved_words) : FoldCase(reserved_words[k].word) = FoldCase(s) }

(***************************************************************************)
(* C4: an identifier at a token boundary that is a reserved word, whatever *)
(* its case and only as a whole word, is encoded as the 2-byte code of     *)
(* that word alone; any other identifier is encoded as code 1, its length  *)
(* on 32 bits and its bytes.  The byte that ended the identifier is the    *)
(* first byte the next call reads.                                         *)
(***************************************************************************)
C4_NameStep ==
    (/\ TokenStep
     /\ Pending # << >>
     /\ Head(Pending) \in Upper \cup Lower \cup {"_"}
     /\ Len(Identifier) < BUFFER_SIZE - 1) =>
        /\ pc' = "encode"
        /\ IF Keywords(Identifier) # {}
           THEN \E k \in Keywords(Identifier) :
                    Appends(<< reserved_words[k].token, 0 >>)
           ELSE Appends(<< TOKEN_NAME, 0 >>
                        \o << Len(Identifier), 0, 0, 0 >>
                        \o Ords(Identifier))
        /\ AfterIdentifier # << >> => ungot' \o infile' = AfterIdentifier
        /\ AfterIdentifier = << >> => infile' = << >>
        /\ line_no' = line_no

C4_Names == [][C4_NameStep]_vars

\* a reserved word in mixed case, ended by '{', has been encoded as the code
\* of the word and the '{' is the next byte to read
C4_Witness ==
    /\ pc = "encode"
    /\ Body = << "W", "o", "r", "d", "{" >>
    /\ Tokens = << TOKEN_WORD, 0 >>
    /\ Pending = << "{" >>

NumberByte(s, i, dot) ==
    \/ s[i] \in Digits
    \/ i = 1 /\ s[i] = "-"
    \/ ~dot /\ s[i] = "."

\* the length of the longest prefix of s that is digits, a '-' in the first
\* place and one '.' at most, counted from i
RECURSIVE NumberEnd(_, _, _)
NumberEnd(s, i, dot) ==
    IF i <= Len(s) /\ NumberByte(s, i, dot)
    THEN NumberEnd(s, i + 1, dot \/ s[i] = ".")
    ELSE i - 1

\* the number at the head of the pending input, and what follows it
Number == SubSeq(Pending, 1, NumberEnd(Pending, 1, FALSE))
AfterNumber == SubSeq(Pending, Len(Number) + 1, Len(Pending))

HasDot(s) == \E i \in 1..Len(s) : s[i] = "."
HasDigit(s) == \E i \in 1..Len(s) : s[i] \in Digits

\* the value of the decimal digits s[1..k]
RECURSIVE DigitsValue(_, _)
DigitsValue(s, k) == IF k = 0 THEN 0 ELSE DigitsValue(s, k - 1) * 10 + (Ord(s[k]) - 48)

\* the value of an integer literal
IntegerValue(s) ==
    IF Head(s) = "-" THEN 0 - DigitsValue(Tail(s), Len(s) - 1) ELSE DigitsValue(s, Len(s))

\* the four bytes, least significant first, of a natural number below 2^31
NatBytes(n) == << n % 256, (n \div 256) % 256, (n \div 65536) % 256, n \div 16777216 >>

\* the 32-bit two's complement of v, least significant byte first
Signed32(v) ==
    IF v >= 0 THEN NatBytes(v)
    ELSE [i \in 1..4 |-> 255 - NatBytes(0 - v - 1)[i]]

(***************************************************************************)
(* C5: a number at a token boundary is its digits, a '-' in the first      *)
(* place only and one '.' at most; the byte that breaks the rule ends it   *)
(* and is the first byte the next call reads.  A number with a digit in it *)
(* is encoded as a Float token with 4 bytes of payload when it has a '.',  *)
(* as an Integer token with the 4 bytes of its signed value otherwise.     *)
(* "3.5.1" is Float 3.5, Dot, Integer 1, and "-42" is Integer -42.         *)
(***************************************************************************)
C5_NumberStep ==
    (/\ TokenStep
     /\ Pending # << >>
     /\ Head(Pending) \in Digits \cup {"-"}
     /\ HasDigit(Number)
     /\ Len(Number) < BUFFER_SIZE - 1) =>
        /\ pc' = "encode"
        /\ IF HasDot(Number)
           THEN /\ output_pos' = output_pos + 6
                /\ Len(output_data') = output_pos'
                /\ SubSeq(output_data', 1, output_pos) = output_data
                /\ SubSeq(Appended, 1, 2) = << TOKEN_FLOAT, 0 >>
           ELSE Appends(<< TOKEN_INTEGER, 0 >> \o Signed32(IntegerValue(Number)))
        /\ AfterNumber # << >> => ungot' \o infile' = AfterNumber
        /\ AfterNumber = << >> => infile' = << >>
        /\ line_no' = line_no

C5_ExampleStep ==
    (TokenStep /\ infile' = << >>) =>
        /\ Body = << "3", ".", "5", ".", "1" >> =>
             Tokens' = << TOKEN_FLOAT, 0, 0, 0, 96, 64, TOKEN_DOT, 0,
                          TOKEN_INTEGER, 0, 1, 0, 0, 0 >>
        /\ Body = << "-", "4", "2" >> =>
             Tokens' = << TOKEN_INTEGER, 0, 214, 255, 255, 255 >>
        /\ Body = << "3", ".", "5" >> =>
             Tokens' = << TOKEN_FLOAT, 0, 0, 0, 96, 64 >>

C5_Numbers == [][C5_NumberStep /\ C5_ExampleStep]_vars

\* all of "3.5.1" has been read and it was encoded as three tokens
C5_Witness ==
    /\ Body = << "3", ".", "5", ".", "1" >>
    /\ infile = << >>
    /\ Len(token_starts) = 3
    /\ Tokens = << TOKEN_FLOAT, 0, 0, 0, 96, 64, TOKEN_DOT, 0,
                   TOKEN_INTEGER, 0, 1, 0, 0, 0 >>

(***************************************************************************)
(* C6: when the pending input is a '"' with no '"' after it, the call of   *)
(* parse_token ends the run with status 1 and the message "unterminated    *)
(* string"; the Output Buffer is as it was and nothing has reached the     *)
(* sink.                                                                   *)
(***************************************************************************)
C6_UnterminatedStep ==
    (/\ TokenStep
     /\ Pending # << >>
     /\ Head(Pending) = "\""
     /\ \A i \in 2..Len(Pending) : Pending[i] # "\"") =>
        /\ pc' = "exited"
        /\ exit_status' = 1
        /\ diag'.msg = "unterminated string"
        /\ output_data' = output_data
        /\ output_pos' = output_pos
        /\ token_starts' = token_starts
        /\ written' = << >>

C6_Unterminated == [][C6_UnterminatedStep]_vars

\* the run on the input "abc with the opening quote only has ended with the
\* error and without a token
C6_Witness ==
    /\ pc = "exited"
    /\ exit_status = 1
    /\ diag.msg = "unterminated string"
    /\ Body = << "\"", "a", "b", "c" >>
    /\ Tokens = << >>
    /\ written = << >>

----------------------------------------------------------------------------
(* The output, seen from outside *)

\* the first index of w from i on that holds the item a (0 if none)
IndexFrom(w, a, i) ==
    IF \E j \in i..Len(w) : w[j] = a
    THEN CHOOSE j \in i..Len(w) : w[j] = a /\ \A k \in i..(j - 1) : w[k] # a
    ELSE 0

\* the items of w between the first item a and the next item b
Between(w, a, b) ==
    LET i == IndexFrom(w, a, 1)
        j == IndexFrom(w, b, i + 1)
    IN  IF i = 0 \/ j = 0 THEN << "?" >> ELSE SubSeq(w, i + 1, j - 1)

\* the name of the array and of the size macro in the text of a header
ArrayName(w) == Between(w, "\n\nunsigned char ", "[] = {")
MacroName(w) == Between(w, "#define ", " ")

\* the option -c of the command line was given with the argument a
Given(c, a) == \E i \in 1..Len(args.opts) : args.opts[i] = << c, a >>
Flag(c) == \E i \in 1..Len(args.opts) : args.opts[i][1] = c

\* s begins with the bytes of line
BeginsWith(s, line) == Len(s) >= Len(line) /\ SubSeq(s, 1, Len(line)) = line

(***************************************************************************)
(* C7: once the variable name is set, by -i or by a name directive, no     *)
(* step changes it, and likewise the size name; the header that is written *)
(* carries the configured names, which are the first ones seen: the        *)
(* argument of -i or -s if given, else the name of the directive the input *)
(* begins with, whatever directives follow.                                *)
(***************************************************************************)
C7_FirstWinsStep ==
    /\ option_inc_var_name # NULL => option_inc_var_name' = option_inc_var_name
    /\ option_inc_size_name # NULL => option_inc_size_name' = option_inc_size_name
    /\ (pc = "emit" /\ pc' = "close" /\ option_header) =>
         /\ ArrayName(written') = option_inc_var_name[1]
         /\ Given("i", VarA) => ArrayName(written') = VarA
         /\ (~Flag("i") /\ BeginsWith(Body, NameFoo)) =>
              ArrayName(written') = << "F", "o", "o" >>
         /\ (~Flag("i") /\ BeginsWith(Body, NameBar)) =>
              ArrayName(written') = << "B", "a", "r" >>
         /\ option_inc_size_name # NULL =>
              MacroName(written') = option_inc_size_name[1]
         /\ Given("s", SizeS) => MacroName(written') = SizeS
         /\ (~Flag("s") /\ BeginsWith(Body, SizeLen)) =>
              MacroName(written') = << "L", "e", "n" >>

C7_FirstWins == [][C7_FirstWinsStep]_vars

\* two name directives were read and the header carries the first name
C7_Witness ==
    /\ pc = "close"
    /\ option_header
    /\ Body = NameFoo \o NameBar
    /\ option_inc_var_name = Ptr(<< "F", "o", "o" >>)
    /\ ArrayName(written) = << "F", "o", "o" >>

HexDigitValue(c) == IF c \in Digits THEN Ord(c) - 48 ELSE Ord(c) - 87

\* the bytes that the text " 0x12, 0x34," ... stands for (-1 where the text
\* is not a hex literal)
RECURSIVE DecodeHex(_)
DecodeHex(s) ==
    IF s = << >> THEN << >>
    ELSE IF Head(s) \in {"\n", " "} THEN DecodeHex(Tail(s))
    ELSE IF Len(s) >= 5 /\ s[1] = "0" /\ s[2] = "x" /\ s[5] = ","
    THEN << 16 * HexDigitValue(s[3]) + HexDigitValue(s[4]) >>
         \o DecodeHex(SubSeq(s, 6, Len(s)))
    ELSE << -1 >>

\* the sink has received all the output of a run
Emitted == pc \in {"close", "return"} \/ (pc = "exited" /\ exit_status = 0 /\ written # << >>)

(***************************************************************************)
(* C8: when main has emitted the output, the hex literals of the header    *)
(* mode, decoded in order, are the bytes the binary mode writes from the   *)
(* same buffer, output_data[0 .. output_pos); the binary mode writes       *)
(* exactly those bytes.                                                    *)
(***************************************************************************)
C8_HexIsRaw ==
    Emitted =>
        /\ output_pos <= Len(output_data)
        /\ IF option_header
           THEN /\ DecodeHex(Between(written, "[] = {", "\n};\n\n"))
                     = write_raw_bytes(output_data, output_pos)
                /\ DecodeHex(Between(written, "[] = {", "\n};\n\n"))
                     = SubSeq(output_data, 1, output_pos)
           ELSE written = SubSeq(output_data, 1, output_pos)

\* a header with the 16 bytes of the output header and one token in hex
C8_Witness ==
    /\ pc = "close"
    /\ option_header
    /\ Tokens = << TOKEN_OBRACE, 0 >>
    /\ DecodeHex(Between(written, "[] = {", "\n};\n\n")) = CanonicalBytes \o << 10, 0 >>

(***************************************************************************)
(* C9 as stated: with the output in a named file, a run that fails after   *)
(* the handlers are installed leaves no output file; the file survives     *)
(* only with exit status 0.                                                *)
(***************************************************************************)
C9_AsStated == (pc = "exited" /\ handlers /\ exit_status # 0) => file_state = "absent"

(***************************************************************************)
(* C9: with the output in a named file, a run that fails while the file is *)
(* registered for removal (output_file set, that is before main has        *)
(* closed the output) leaves no output file.  The file survives with exit  *)
(* status 0, and also when a signal ends the run with status 1 after main  *)
(* has closed the complete output and cleared output_file.                 *)
(***************************************************************************)
C9_FailureRemovesFile ==
    (pc = "exited" /\ handlers) =>
        /\ (exit_status # 0 /\ output_file # NULL) => file_state = "absent"
        /\ (exit_status # 0 /\ diag.msg # "signal") => file_state = "absent"
        /\ file_state # "absent" =>
             /\ file_state = "new"
             /\ output_file = NULL
             /\ written # << >>
             /\ exit_status = 0 \/ (exit_status = 1 /\ diag.msg = "signal")

\* a fatal lexical error after the output file was created: the file is gone
C9_Witness ==
    /\ pc = "exited"
    /\ handlers
    /\ outfile = "file"
    /\ exit_status = 1
    /\ diag.msg = "unterminated string"
    /\ file_state = "absent"

----------------------------------------------------------------------------
(* The token stream, seen from outside *)

\* the bytes of the k-th token that parse_token appended
TokenAt(k) ==
    SubSeq(output_data, token_starts[k] + 1,
           IF k < Len(token_starts) THEN token_starts[k + 1] ELSE output_pos)

\* the shapes a payload can have: none, 4 bytes, 16 bytes, or a 32-bit count
\* and that many bytes
Shapes == {"none", "four", "sixteen", "counted"}

Fits(tok, shape) ==
    CASE shape = "none" -> Len(tok) = 2
      [] shape = "four" -> Len(tok) = 2 + 4
      [] shape = "sixteen" -> Len(tok) = 2 + 16
      [] shape = "counted" ->
           /\ Len(tok) >= 2 + 4
           /\ SubSeq(tok, 3, 6) = NatBytes(Len(tok) - 6)

(***************************************************************************)
(* C2 as stated: any two tokens in the Output Buffer that carry the same   *)
(* 16-bit code have one payload shape in common, so that the code alone    *)
(* tells what follows it.                                                  *)
(***************************************************************************)
C2_CodeDeterminesShape ==
    \A j, k \in 1..Len(token_starts) :
        SubSeq(TokenAt(j), 1, 2) = SubSeq(TokenAt(k), 1, 2) =>
            \E shape \in Shapes : Fits(TokenAt(j), shape) /\ Fits(TokenAt(k), shape)

----------------------------------------------------------------------------
(* The Output Buffer under a limited heap and long inputs *)

\* realloc has failed: the size was raised and output_data is NULL
AllocFailed == output_null /\ output_size > 0

(***************************************************************************)
(* C11 as stated: once an allocation for the Output Buffer has failed, the *)
(* run does not go on to emit the output as if the input had ended, and it *)
(* ends with exit status 1 and with nothing written to the sink.           *)
(***************************************************************************)
C11_AllocFailureFatal ==
    AllocFailed =>
        /\ pc \notin {"emit", "close", "return"}
        /\ pc = "exited" => (exit_status = 1 /\ written = << >>)

(***************************************************************************)
(* C13 as stated: after every append the length of the Output Buffer is    *)
(* within its capacity.                                                    *)
(***************************************************************************)
C13_WithinCapacity == output_pos <= output_size

\* the place of the first '"' after the opening one in the pending input
\* (0 if there is none)
ClosingQuote ==
    LET q == { i \in 2..Len(Pending) : Pending[i] = "\"" }
    IN  IF q = {} THEN 0 ELSE CHOOSE i \in q : \A j \in q : i <= j

\* the bytes between the quotes
Literal == SubSeq(Pending, 2, ClosingQuote - 1)

(***************************************************************************)
(* C12 as stated: a string literal with more than 512 bytes between its    *)
(* quotes is encoded as a String token with the length 512 and the first   *)
(* 512 bytes of the literal, and the input up to and with the closing      *)
(* quote is consumed (looked at where the append stays within the block).  *)
(***************************************************************************)
C12_TruncatedStep ==
    (/\ TokenStep
     /\ Pending # << >>
     /\ Head(Pending) = "\""
     /\ ClosingQuote # 0
     /\ Len(Literal) > BUFFER_SIZE
     /\ ~ub') =>
        /\ pc' = "encode"
        /\ Appends(<< TOKEN_STRING, 0 >> \o NatBytes(BUFFER_SIZE)
                   \o Ords(SubSeq(Literal, 1, BUFFER_SIZE)))
        /\ ungot' \o infile' = SubSeq(Pending, ClosingQuote + 1, Len(Pending))

C12_Truncated == [][C12_TruncatedStep]_vars

----------------------------------------------------------------------------
(* The encoder loop and the pushback slot *)

(***************************************************************************)
(* C14 as stated: every call of parse_token that returns TRUE leaves fewer *)
(* bytes to read than it found (what it pushed back counted as still to    *)
(* read), and a call that finds nothing to read ends the loop without a    *)
(* message.                                                                *)
(***************************************************************************)
C14_ProgressStep ==
    TokenStep =>
        /\ pc' = "encode" => Len(ungot' \o infile') < Len(Pending)
        /\ Pending = << >> => (pc' = "check" /\ diag' = diag)

C14_Progress == [][C14_ProgressStep]_vars

\* s is what is left of t after some bytes were taken from its front
IsSuffix(s, t) == Len(s) <= Len(t) /\ s = SubSeq(t, Len(t) - Len(s) + 1, Len(t))

(***************************************************************************)
(* C15 as stated: while the encoder runs at most one byte is pushed back,  *)
(* and it is the byte read last: the byte of the input that stands just    *)
(* before the bytes not yet read.                                          *)
(***************************************************************************)
C15_OneByteBack ==
    (Encoding /\ input # NULL) =>
        /\ Len(ungot) <= 1
        /\ IsSuffix(Pending, Body)

----------------------------------------------------------------------------
(* Directive lines and GUID literals *)

\* the place of the first newline in the pending input (0 if there is none)
LineEnd ==
    LET n == { i \in 1..Len(Pending) : Pending[i] = "\n" }
    IN  IF n = {} THEN 0 ELSE CHOOSE i \in n : \A j \in n : i <= j

(***************************************************************************)
(* C16 as stated: a '#' line is the fatal error "line too long" when the   *)
(* input ends before its newline and when more than 512 bytes stand        *)
(* between the '#' and the newline; a '#' line whose newline comes within  *)
(* the limit is not an error.                                              *)
(***************************************************************************)
C16_LineStep ==
    (TokenStep /\ Pending # << >> /\ Head(Pending) = "#" /\ ~ub') =>
        IF LineEnd = 0 \/ LineEnd - 2 > BUFFER_SIZE
        THEN pc' = "exited" /\ exit_status' = 1 /\ diag'.msg = "line too long"
        ELSE pc' = "encode" /\ diag' = diag

C16_LineTooLong == [][C16_LineStep]_vars

\* the 38 bytes t are <XXXXXXXX-XXXX-XXXX-XXXX-XXXXXXXXXXXX> with hex digits
\* for the X
GuidPattern(t) ==
    /\ Len(t) = GUID_TEXT_REST + 1
    /\ \A i \in 1..Len(t) :
         IF i = 1 THEN t[i] = "<"
         ELSE IF i = Len(t) THEN t[i] = ">"
         ELSE IF i \in {10, 15, 20, 25} THEN t[i] = "-"
         ELSE t[i] \in {"0", "1", "2", "3", "4", "5", "6", "7", "8", "9",
                        "a", "b", "c", "d", "e", "f", "A", "B", "C", "D", "E", "F"}

(***************************************************************************)
(* C17 as stated: at a '<' with fewer than 37 bytes after it the run ends  *)
(* with "truncated GUID"; otherwise the '<' and the 37 bytes are accepted  *)
(* exactly if they are <XXXXXXXX-XXXX-XXXX-XXXX-XXXXXXXXXXXX>: if so the    *)
(* GUID code and 16 bytes are appended, if not the run ends with "invalid  *)
(* GUID" and nothing is appended.                                          *)
(***************************************************************************)
C17_GuidStep ==
    (TokenStep /\ Pending # << >> /\ Head(Pending) = "<") =>
        IF Len(Pending) < GUID_TEXT_REST + 1
        THEN /\ pc' = "exited" /\ exit_status' = 1 /\ diag'.msg = "truncated GUID"
             /\ output_pos' = output_pos
        ELSE IF GuidPattern(SubSeq(Pending, 1, GUID_TEXT_REST + 1))
        THEN /\ pc' = "encode"
             /\ output_pos' = output_pos + 2 + 16
             /\ Appends(Appended)
             /\ SubSeq(Appended, 1, 2) = << TOKEN_GUID, 0 >>
        ELSE /\ pc' = "exited" /\ exit_status' = 1 /\ diag'.msg = "invalid GUID"
             /\ output_pos' = output_pos

C17_GuidPattern == [][C17_GuidStep]_vars

----------------------------------------------------------------------------
(* Text that makes no token *)

\* the pending input from the byte after the first newline
AfterLine == SubSeq(Pending, LineEnd + 1, Len(Pending))

(***************************************************************************)
(* C18: a call of parse_token that starts at a white space byte, at a '/'  *)
(* or at a '#' leaves the Output Buffer as it was; after a white space     *)
(* byte the next call starts at the byte after it, after a '//' comment    *)
(* or a '#' line with a newline at the byte after the newline; a '//'      *)
(* comment that the end of the input ends makes the loop end without a     *)
(* message; a '/' that no '/' follows is the fatal error "invalid single   *)
(* '/' comment token".                                                     *)
(***************************************************************************)
C18_SkipStep ==
    (TokenStep /\ Pending # << >>) =>
        LET c == Head(Pending)
        IN  /\ c \in {" ", "\t", "\n", "\r", "/", "#"} =>
                 (output_data' = output_data /\ output_pos' = output_pos)
            /\ c \in {" ", "\t", "\n", "\r"} =>
                 (pc' = "encode" /\ ungot' \o infile' = Tail(Pending))
            /\ (c = "/" /\ (Len(Pending) < 2 \/ Pending[2] # "/")) =>
                 (/\ pc' = "exited" /\ exit_status' = 1
                  /\ diag'.msg = "invalid single '/' comment token")
            /\ (c = "/" /\ Len(Pending) >= 2 /\ Pending[2] = "/" /\ LineEnd = 0) =>
                 (pc' = "check" /\ diag' = diag /\ ungot' \o infile' = << >>)
            /\ (c = "/" /\ Len(Pending) >= 2 /\ Pending[2] = "/" /\ LineEnd # 0) =>
                 (pc' = "encode" /\ ungot' \o infile' = AfterLine)
            /\ (c = "#" /\ LineEnd # 0) =>
                 (pc' = "encode" /\ ungot' \o infile' = AfterLine)

C18_NoToken == [][C18_SkipStep]_vars

\* a '{', then a comment that the end of the input ends: the loop has ended,
\* the '{' is the only token
C18_Witness ==
    /\ input # NULL
    /\ Body = << "{", "/", "/", "x" >>
    /\ pc = "check"
    /\ diag.msg = NUL
    /\ Tokens = << TOKEN_OBRACE, 0 >>

----------------------------------------------------------------------------
(* Runs that fail before the output is chosen *)

\* the run has ended with a usage error or with a header that was not
\* accepted
FailedEarly == pc = "exited" /\ exit_status = 1 /\ diag.msg \in {"usage"} \cup HeaderMessages

(***************************************************************************)
(* C19: a run that ends with a usage error or with a header message has    *)
(* taken no step but the check of the command line and the check of the    *)
(* header, and each of these steps leaves the output path on disk as it    *)
(* was, opens no output stream, names no output file and registers no      *)
(* cleanup.                                                                *)
(***************************************************************************)
C19_EarlyStep ==
    /\ FailedEarly' => pc \in {"main", "header", "exited"}
    /\ pc \in {"main", "header"} =>
         /\ file_state' = file_state
         /\ outfile' = "NULL"
         /\ output_file' = NULL
         /\ ~handlers'
         /\ written' = << >>

C19_OutputUntouched == [][C19_EarlyStep]_vars

\* a run with -o that has ended on a bad header, the file that was at the
\* output path still there
C19_Witness ==
    /\ FailedEarly
    /\ diag.msg \in HeaderMessages
    /\ \E i \in 1..Len(args.opts) : args.opts[i][1] = "o"
    /\ file_state = "old"
    /\ output_file = NULL

----------------------------------------------------------------------------
(* The line counter *)

\* the messages of the fatal errors of the lexer
LexicalMessages ==
    { "invalid single '/' comment token", "line too long", "truncated GUID",
      "invalid GUID", "unterminated string", "invalid character to start token",
      "invalid float token", "invalid integer token" }

\* the number of bytes of the input taken after the header and not pushed
\* back (a byte 0xFF pending after the end of the input is no byte of it)
Consumed == Len(Body) - Len(SelectSeq(Pending, LAMBDA c : c # CH_FF))

\* the newlines among them
NewlinesConsumed == Cardinality({ i \in 1..Consumed : Body[i] = "\n" })

(***************************************************************************)
(* C20 as stated: between two calls of parse_token, and in the message of  *)
(* a fatal error of the lexer, the line counter is 1 plus the number of    *)
(* newlines among the bytes consumed after the header.                     *)
(***************************************************************************)
C20_LineCounter ==
    /\ (pc = "encode" /\ input # NULL) => line_no = 1 + NewlinesConsumed
    /\ (pc = "exited" /\ encoding_begun /\ diag.msg \in LexicalMessages) =>
           diag.line = 1 + NewlinesConsumed

=============================================================================
